---- MODULE Spec2Model ----
(***************************************************************************)
(* Model of backend/app.py: the AI categorization service.  An account     *)
(* name is a sequence of one-character strings, so that the substring      *)
(* tests, lower() and strip() of the code are computed and not assumed.    *)
(* A confidence is an integer number of hundredths (0.85 is 85).           *)
(***************************************************************************)
EXTENDS Integers, Sequences, FiniteSets, TLC

\* ------------------------------------------------------------------ text

\* the lower-case letter of every upper-case letter
LowerOf ==
    [A |-> "a", B |-> "b", C |-> "c", D |-> "d", E |-> "e", F |-> "f",
     G |-> "g", H |-> "h", I |-> "i", J |-> "j", K |-> "k", L |-> "l",
     M |-> "m", N |-> "n", O |-> "o", P |-> "p", Q |-> "q", R |-> "r",
     S |-> "s", T |-> "t", U |-> "u", V |-> "v", W |-> "w", X |-> "x",
     Y |-> "y", Z |-> "z"]

Whitespace == {" ", "\t", "\n", "\r"}

\* str.lower() on one character
LowerChar(c) == IF c \in DOMAIN LowerOf THEN LowerOf[c] ELSE c

\* str.lower()
RECURSIVE Lower(_)
Lower(s) ==
    IF s = <<>> THEN <<>> ELSE <<LowerChar(Head(s))>> \o Lower(Tail(s))

RECURSIVE StripLeft(_)
StripLeft(s) ==
    IF s # <<>> /\ Head(s) \in Whitespace THEN StripLeft(Tail(s)) ELSE s

RECURSIVE StripRight(_)
StripRight(s) ==
    IF s # <<>> /\ s[Len(s)] \in Whitespace
    THEN StripRight(SubSeq(s, 1, Len(s) - 1))
    ELSE s

\* str.strip()
Strip(s) == StripRight(StripLeft(s))

\* Python's `k in s` on strings
Contains(s, k) ==
    \E i \in 1..(Len(s) - Len(k) + 1) : SubSeq(s, i, i + Len(k) - 1) = k

\* any(keyword in s for keyword in ks)
ContainsAny(s, ks) == \E j \in DOMAIN ks : Contains(s, ks[j])

Max(a, b) == IF a >= b THEN a ELSE b

Min(a, b) == IF a <= b THEN a ELSE b

\* ------------------------------------------------- AICategorizer.__init__

income_keywords ==
    << <<"r","e","n","t">>,
       <<"r","e","v","e","n","u","e">>,
       <<"i","n","c","o","m","e">>,
       <<"r","e","c","e","i","p","t","s">>,
       <<"f","e","e","s">>,
       <<"c","h","a","r","g","e","s">>,
       <<"t","e","n","a","n","t">>,
       <<"r","e","s","i","d","e","n","t">>,
       <<"r","e","n","t","a","l">>,
       <<"l","e","a","s","e">>,
       <<"c","o","n","c","e","s","s","i","o","n","s">>,
       <<"s","h","o","r","t"," ","t","e","r","m">>,
       <<"a","i","r","b","n","b">>,
       <<"v","r","b","o">>,
       <<"p","a","r","k","i","n","g">>,
       <<"p","e","t"," ","f","e","e","s">>,
       <<"a","p","p","l","i","c","a","t","i","o","n">>,
       <<"a","d","m","i","n">>,
       <<"l","a","t","e"," ","f","e","e","s">>,
       <<"u","t","i","l","i","t","y"," ","r","e","c","o","v","e","r","y">> >>

expense_keywords ==
    << <<"e","x","p","e","n","s","e">>,
       <<"c","o","s","t">>,
       <<"m","a","i","n","t","e","n","a","n","c","e">>,
       <<"r","e","p","a","i","r">>,
       <<"u","t","i","l","i","t","i","e","s">>,
       <<"i","n","s","u","r","a","n","c","e">>,
       <<"t","a","x">>,
       <<"m","a","n","a","g","e","m","e","n","t">>,
       <<"l","e","g","a","l">>,
       <<"a","c","c","o","u","n","t","i","n","g">>,
       <<"m","a","r","k","e","t","i","n","g">>,
       <<"a","d","v","e","r","t","i","s","i","n","g">>,
       <<"c","l","e","a","n","i","n","g">>,
       <<"l","a","n","d","s","c","a","p","i","n","g">>,
       <<"s","e","c","u","r","i","t","y">>,
       <<"s","u","p","p","l","i","e","s">>,
       <<"e","q","u","i","p","m","e","n","t">>,
       <<"c","a","p","i","t","a","l">>,
       <<"d","e","p","r","e","c","i","a","t","i","o","n">>,
       <<"m","o","v","e"," ","o","u","t">>,
       <<"d","a","m","a","g","e","s">>,
       <<"i","n","c","e","n","t","i","v","e","s">>,
       <<"s","p","e","c","i","a","l","s">> >>

total_keywords ==
    << <<"t","o","t","a","l"," ","i","n","c","o","m","e">>,
       <<"t","o","t","a","l"," ","e","x","p","e","n","s","e">>,
       <<"n","e","t"," ","i","n","c","o","m","e">>,
       <<"g","r","o","s","s"," ","i","n","c","o","m","e">>,
       <<"o","p","e","r","a","t","i","n","g"," ","i","n","c","o","m","e">>,
       <<"o","p","e","r","a","t","i","n","g"," ","e","x","p","e","n","s","e">>,
       <<"n","e","t"," ","o","p","e","r","a","t","i","n","g"," ","i","n","c","o","m","e">>,
       <<"t","o","t","a","l"," ","r","e","v","e","n","u","e">>,
       <<"t","o","t","a","l"," ","c","o","s","t","s">>,
       <<"p","r","o","f","i","t">>,
       <<"l","o","s","s">> >>

\* the literals of detect_sections and fuzzy_categorize

KwIncome == <<"i","n","c","o","m","e">>

KwRevenue == <<"r","e","v","e","n","u","e">>

KwTotal == <<"t","o","t","a","l">>

KwGross == <<"g","r","o","s","s">>

KwOperating == <<"o","p","e","r","a","t","i","n","g">>

KwExpense == <<"e","x","p","e","n","s","e">>

KwCost == <<"c","o","s","t">>

KwNetIncome == <<"n","e","t"," ","i","n","c","o","m","e">>

KwProfit == <<"p","r","o","f","i","t">>

KwSubtotal == <<"s","u","b","t","o","t","a","l">>

KwNet == <<"n","e","t">>

\* ------------------------------------------------------------ categories

income == "income"

expense == "expense"

net_income == "net_income"

uncategorized == "uncategorized"

\* SQL NULL / Python None in a text column
NULL == "NULL"

\* confidences, in hundredths
ConfSection == 90

ConfCorrected == 95

ConfTotal == 90

ConfCap == 85

ConfFloor == 30

FuzzyThreshold == 60

\* --------------------------------------------------- fuzz.partial_ratio

\* one row of the longest-common-subsequence table of a and b: prev is the row
\* of the previous character of a, acc the row being built; entry k of a row
\* is its column k-1, so the next column to fill is Len(acc)
RECURSIVE LcsRow(_, _, _, _)
LcsRow(ai, b, prev, acc) ==
    LET j == Len(acc)
    IN  IF j > Len(b) THEN acc
        ELSE LcsRow(ai, b, prev,
                    Append(acc, IF ai = b[j] THEN prev[j] + 1
                                ELSE Max(prev[j + 1], acc[j])))

RECURSIVE LcsRows(_, _, _, _)
LcsRows(a, b, i, prev) ==
    IF i > Len(a) THEN prev[Len(b) + 1]
    ELSE LcsRows(a, b, i + 1, LcsRow(a[i], b, prev, <<0>>))

\* the number of matched characters of the best alignment of a and b
LcsLen(a, b) == LcsRows(a, b, 1, [j \in 1..(Len(b) + 1) |-> 0])

\* int(round(n / d)) with Python 3's round-half-to-even
RoundHalfEven(n, d) ==
    LET q == n \div d
        r == n % d
    IN  IF 2 * r < d THEN q
        ELSE IF 2 * r > d THEN q + 1
        ELSE IF q % 2 = 0 THEN q ELSE q + 1

\* ratio of two strings on the 0..100 scale: 2 * matches / total length
Ratio100(a, b) ==
    IF Len(a) + Len(b) = 0 THEN 100
    ELSE RoundHalfEven(200 * LcsLen(a, b), Len(a) + Len(b))

\* max(xs), a non-empty finite set of integers
SetMax(xs) == CHOOSE m \in xs : \A x \in xs : x <= m

\* fuzz.partial_ratio(s1, s2): the best ratio of the shorter string against
\* the windows of its length in the longer string (windows at the end of the
\* longer string are cut short); 100 when the shorter string occurs in it
partial_ratio(s1, s2) ==
    LET shorter == IF Len(s1) <= Len(s2) THEN s1 ELSE s2
        longer == IF Len(s1) <= Len(s2) THEN s2 ELSE s1
        m == Len(shorter)
        n == Len(longer)
        Window(st) == SubSeq(longer, st, Min(st + m - 1, n))
    IN  IF s1 = s2 THEN 100
        ELSE IF m = 0 THEN 0
        ELSE IF Contains(longer, shorter) THEN 100
        ELSE SetMax({Ratio100(shorter, Window(st)) : st \in 1..n})

\* max(scores) if scores else 0, scores the partial ratios of s and the keywords
MaxScore(s, ks) ==
    IF ks = <<>> THEN 0
    ELSE SetMax({partial_ratio(s, ks[j]) : j \in DOMAIN ks})

\* ---------------------------------------------------------- account names

NmTotalIncome == <<"T","o","t","a","l"," ","I","n","c","o","m","e">>

NmTotalExpense == <<"T","o","t","a","l"," ","E","x","p","e","n","s","e">>

NmRent == <<"R","e","n","t">>

NmMisc == <<"M","i","s","c">>

NmTotal == <<"T","o","t","a","l">>

NmBlank == <<" "," ">>

NmEmpty == <<>>

NmTotalOperatingExpense == <<"T","o","t","a","l"," ","O","p","e","r","a","t","i","n","g"," ","E","x","p","e","n","s","e">>

NmMaintenance == <<"M","a","i","n","t","e","n","a","n","c","e">>

NmNetIncome == <<"N","e","t"," ","I","n","c","o","m","e">>

NmProfit == <<"P","r","o","f","i","t">>

NmNetLoss == <<"N","e","t"," ","L","o","s","s">>

NmLoss == <<"L","o","s","s">>

NmLossExpense == <<"L","o","s","s"," ","E","x","p","e","n","s","e">>

\* the account names the requests of the model carry
AccountNames ==
    {NmTotalIncome, NmTotalExpense, NmRent, NmMisc, NmTotal, NmBlank, NmEmpty,
     NmTotalOperatingExpense, NmMaintenance, NmNetIncome, NmProfit, NmNetLoss,
     NmLoss, NmLossExpense}

\* ------------------------------------------- fuzzy_categorize, lines 168-192

\* KeywordScore with the "net" branch of the total/summary rule tested first
KeywordScore_NetFirst(account_lower) ==
    LET is_total == ContainsAny(account_lower, total_keywords)
        max_income_score == MaxScore(account_lower, income_keywords)
        max_expense_score == MaxScore(account_lower, expense_keywords)
    IN  IF is_total /\ Contains(account_lower, KwNet)
        THEN [category |-> net_income, confidence |-> ConfTotal]
        ELSE IF is_total /\ Contains(account_lower, KwIncome)
        THEN [category |-> income, confidence |-> ConfTotal]
        ELSE IF is_total /\ Contains(account_lower, KwExpense)
        THEN [category |-> expense, confidence |-> ConfTotal]
        ELSE IF max_income_score > max_expense_score
                /\ max_income_score > FuzzyThreshold
        THEN [category |-> income,
              confidence |-> Min(max_income_score, ConfCap)]
        ELSE IF max_expense_score > FuzzyThreshold
        THEN [category |-> expense,
              confidence |-> Min(max_expense_score, ConfCap)]
        ELSE [category |-> uncategorized, confidence |-> ConfFloor]

\* the keyword part of fuzzy_categorize, on the lowered and stripped name:
\* the total/summary rule, then the fuzzy scores against the keyword lists
KeywordScore(account_lower) ==
    LET is_total == ContainsAny(account_lower, total_keywords)
        max_income_score == MaxScore(account_lower, income_keywords)
        max_expense_score == MaxScore(account_lower, expense_keywords)
    IN  IF is_total /\ Contains(account_lower, KwIncome)
        THEN [category |-> income, confidence |-> ConfTotal]
        ELSE IF is_total /\ Contains(account_lower, KwExpense)
        THEN [category |-> expense, confidence |-> ConfTotal]
        ELSE IF is_total /\ Contains(account_lower, KwNet)
        THEN [category |-> net_income, confidence |-> ConfTotal]
        ELSE IF max_income_score > max_expense_score
                /\ max_income_score > FuzzyThreshold
        THEN [category |-> income,
              confidence |-> Min(max_income_score, ConfCap)]
        ELSE IF max_expense_score > FuzzyThreshold
        THEN [category |-> expense,
              confidence |-> Min(max_expense_score, ConfCap)]
        ELSE [category |-> uncategorized, confidence |-> ConfFloor]

\* KeywordScore of every account name of the model, computed once
ScoreTable ==
    {[name |-> n, score |-> KeywordScore(Lower(Strip(n)))] : n \in AccountNames}

\* the keyword answer for account_name (account_lower is its lowered, stripped form)
ScoreOf(account_name) ==
    (CHOOSE e \in ScoreTable : e.name = account_name).score

\* ------------------------------------------------------- the learning table

\* the rows of ai_categorizations of one (account_name, file_type)
RowsOf(table, account_name, file_type) ==
    {r \in table : r.account_name = account_name /\ r.file_type = file_type}

\* get_learning_data without its WHERE clause: the rows of every file_type
get_learning_data_AllTypes(table, file_type) ==
    [a \in {r.account_name : r \in table} |->
        LET r == CHOOSE r \in table : r.account_name = a
        IN  [predicted_category |-> r.predicted_category,
             confidence_score |-> r.confidence_score,
             user_corrected_category |-> r.user_corrected_category,
             usage_count |-> r.usage_count]]

\* get_learning_data: account_name -> the columns read, for one file_type
get_learning_data(table, file_type) ==
    LET rows == {r \in table : r.file_type = file_type}
    IN  [a \in {r.account_name : r \in rows} |->
            LET r == CHOOSE r \in rows : r.account_name = a
            IN  [predicted_category |-> r.predicted_category,
                 confidence_score |-> r.confidence_score,
                 user_corrected_category |-> r.user_corrected_category,
                 usage_count |-> r.usage_count]]

\* COALESCE((SELECT usage_count ... WHERE account_name = ? AND file_type = ?), 0)
StoredUsage(table, account_name, file_type) ==
    LET rows == RowsOf(table, account_name, file_type)
    IN  IF rows = {} THEN 0 ELSE (CHOOSE r \in rows : TRUE).usage_count

\* the rows INSERT OR REPLACE deletes: those the new row conflicts with on
\* UNIQUE(account_name, file_type)
Replaced(table, account_name, file_type) ==
    RowsOf(table, account_name, file_type)

\* the usage_count of a plain INSERT OR REPLACE: the column default, 1
NewUsage_Reset(table, account_name, file_type) == 1

\* the usage_count INSERT OR REPLACE writes
NewUsage(table, account_name, file_type) ==
    StoredUsage(table, account_name, file_type) + 1

\* the write of an upsert that keeps the stored correction when the new row
\* brings none
WriteRow_KeepCorrection(st, account_name, file_type, predicted_category, confidence_score, user_corrected_category, usage_count) ==
    LET rows == RowsOf(st.table, account_name, file_type)
    IN  [table |->
            (st.table \ rows)
            \cup {[id |-> st.seq + 1,
                   account_name |-> account_name,
                   file_type |-> file_type,
                   predicted_category |-> predicted_category,
                   confidence_score |-> confidence_score,
                   user_corrected_category |->
                       IF user_corrected_category = NULL /\ rows # {}
                       THEN (CHOOSE r \in rows : TRUE).user_corrected_category
                       ELSE user_corrected_category,
                   usage_count |-> usage_count]},
         seq |-> st.seq + 1]

\* the table and the id sequence after INSERT OR REPLACE has written the row
\* with the given usage_count: the conflicting rows go, the new row gets the
\* next id
WriteRow(st, account_name, file_type, predicted_category, confidence_score, user_corrected_category, usage_count) ==
    [table |->
        (st.table \ Replaced(st.table, account_name, file_type))
        \cup {[id |-> st.seq + 1,
               account_name |-> account_name,
               file_type |-> file_type,
               predicted_category |-> predicted_category,
               confidence_score |-> confidence_score,
               user_corrected_category |-> user_corrected_category,
               usage_count |-> usage_count]},
     seq |-> st.seq + 1]

\* save_categorization as an upsert that leaves the prediction of an existing
\* row alone and updates only its correction and its counter
save_categorization_KeepPrediction(st, account_name, file_type, predicted_category, confidence_score, user_corrected_category) ==
    LET rows == RowsOf(st.table, account_name, file_type)
        old == CHOOSE r \in rows : TRUE
    IN  WriteRow(st, account_name, file_type,
                 IF rows = {} THEN predicted_category ELSE old.predicted_category,
                 IF rows = {} THEN confidence_score ELSE old.confidence_score,
                 user_corrected_category,
                 NewUsage(st.table, account_name, file_type))

\* save_categorization that leaves confidence_score out of the statement, so
\* the row gets the floor confidence
save_categorization_DefaultConfidence(st, account_name, file_type, predicted_category, confidence_score, user_corrected_category) ==
    WriteRow(st, account_name, file_type, predicted_category, ConfFloor,
             user_corrected_category, NewUsage(st.table, account_name, file_type))

\* save_categorization on the store st = [table, seq] when no other
\* connection is open: the INSERT OR REPLACE statement and its commit
save_categorization(st, account_name, file_type, predicted_category, confidence_score, user_corrected_category) ==
    WriteRow(st, account_name, file_type, predicted_category, confidence_score,
             user_corrected_category, NewUsage(st.table, account_name, file_type))

\* the store before the first request: init_db has created the empty tables
EmptyStore == [table |-> {}, seq |-> 0]

\* ----------------------------------------------------------------- rows

\* a row of csv_data that has an account_name, with one sibling field
Row(account_name) == [account_name |-> account_name, amount |-> 1]

\* a row of csv_data without the account_name field
RowNoName == [amount |-> 1]

\* row.get('account_name', '')
RowName(row) ==
    IF "account_name" \in DOMAIN row THEN row.account_name ELSE <<>>

\* rows 1..i of csv_data
Prefix(csv_data, i) == SubSeq(csv_data, 1, i)

\* ------------------------------------------------------- detect_sections

\* the section-header rules on the lowered, stripped name: the value of
\* current_category after the row
SectionAfter(current_category, account_name) ==
    IF Contains(account_name, KwIncome) \/ Contains(account_name, KwRevenue)
    THEN IF Contains(account_name, KwTotal) \/ Contains(account_name, KwGross)
         THEN income
         ELSE IF Contains(account_name, KwOperating)
         THEN income
         ELSE current_category
    ELSE IF Contains(account_name, KwExpense) \/ Contains(account_name, KwCost)
    THEN IF Contains(account_name, KwTotal) \/ Contains(account_name, KwOperating)
         THEN expense
         ELSE current_category
    ELSE IF Contains(account_name, KwNetIncome) \/ Contains(account_name, KwProfit)
    THEN net_income
    ELSE current_category

\* Tagged for header rows only: a row that matches no header rule is left out
Tagged_HeadersOnly(current_category, account_name) ==
    /\ current_category # NULL
    /\ account_name \notin {<<>>, KwTotal, KwSubtotal}
    /\ SectionAfter(NULL, account_name) # NULL

\* current_category and account_name not in ['', 'total', 'subtotal']
Tagged(current_category, account_name) ==
    /\ current_category # NULL
    /\ account_name \notin {<<>>, KwTotal, KwSubtotal}

\* sections.setdefault(key, value): the first section seen for a name stays
DictSet_FirstWins(sections, key, value) ==
    [k \in DOMAIN sections \cup {key} |->
        IF k \in DOMAIN sections THEN sections[k] ELSE value]

\* sections[key] = value
DictSet(sections, key, value) ==
    [k \in DOMAIN sections \cup {key} |-> IF k = key THEN value ELSE sections[k]]

\* the loop of detect_sections from row i on
RECURSIVE DetectFrom(_, _, _, _)
DetectFrom(data, i, current_category, sections) ==
    IF i > Len(data) THEN sections
    ELSE LET account_name == Lower(Strip(RowName(data[i])))
             current == SectionAfter(current_category, account_name)
         IN  DetectFrom(data, i + 1, current,
                 IF Tagged(current, account_name)
                 THEN DictSet(sections, RowName(data[i]), current)
                 ELSE sections)

\* detect_sections(data): account_name -> section category
detect_sections(data) == DetectFrom(data, 1, NULL, [k \in {} |-> NULL])

\* ------------------------------------------------------ fuzzy_categorize

\* Python truth of a text value that may be None
Truthy(v) == v # NULL /\ v # ""

\* FromLearned without its first branch: the correction is never read
FromLearned_NoCorrection(learned) ==
    [category |-> learned.predicted_category,
     confidence |-> learned.confidence_score]

\* FromLearned with the replayed confidence capped like a fuzzy score
FromLearned_CappedReplay(learned) ==
    IF Truthy(learned.user_corrected_category)
    THEN [category |-> learned.user_corrected_category,
          confidence |-> ConfCorrected]
    ELSE [category |-> learned.predicted_category,
          confidence |-> Min(learned.confidence_score, ConfCap)]

\* the answer read from a learning record: the correction, else the prior guess
FromLearned(learned) ==
    IF Truthy(learned.user_corrected_category)
    THEN [category |-> learned.user_corrected_category,
          confidence |-> ConfCorrected]
    ELSE [category |-> learned.predicted_category,
          confidence |-> learned.confidence_score]

\* fuzzy_categorize that uses a learning record only when it carries a
\* correction, and scores the keywords again otherwise
fuzzy_categorize_CorrectedOnly(table, account_name, file_type) ==
    LET learning_data == get_learning_data(table, file_type)
    IN  IF account_name \in DOMAIN learning_data
           /\ Truthy(learning_data[account_name].user_corrected_category)
        THEN FromLearned(learning_data[account_name])
        ELSE ScoreOf(account_name)

\* fuzzy_categorize(account_name, file_type) on the table
fuzzy_categorize(table, account_name, file_type) ==
    LET learning_data == get_learning_data(table, file_type)
    IN  IF account_name \in DOMAIN learning_data
        THEN FromLearned(learning_data[account_name])
        ELSE ScoreOf(account_name)

\* --------------------------------------------------- categorize_csv_data

\* the blank test without strip(): only the empty name is skipped
IsBlank_NoStrip(account_name) == account_name = <<>>

\* not account_name or account_name.strip() == ''
IsBlank(account_name) == account_name = <<>> \/ Strip(account_name) = <<>>

\* the resolution with the learning table consulted before the section mapping
Resolve_LearnedFirst(table, sections, account_name, file_type) ==
    IF RowsOf(table, account_name, file_type) # {}
    THEN fuzzy_categorize(table, account_name, file_type)
    ELSE IF account_name \in DOMAIN sections
    THEN [category |-> sections[account_name], confidence |-> ConfSection]
    ELSE fuzzy_categorize(table, account_name, file_type)

\* the category and confidence of one row: the section mapping first, then
\* fuzzy_categorize
Resolve(table, sections, account_name, file_type) ==
    IF account_name \in DOMAIN sections
    THEN [category |-> sections[account_name], confidence |-> ConfSection]
    ELSE fuzzy_categorize(table, account_name, file_type)

\* the loop of categorize_csv_data from row i on: st is the store so far,
\* out the categorized_data so far
RECURSIVE CategorizeFrom(_, _, _, _, _, _)
CategorizeFrom(st, csv_data, file_type, sections, i, out) ==
    IF i > Len(csv_data) THEN [store |-> st, categorized_data |-> out]
    ELSE LET row == csv_data[i]
             account_name == RowName(row)
             ans == Resolve(st.table, sections, account_name, file_type)
         IN  IF IsBlank(account_name)
             THEN CategorizeFrom(st, csv_data, file_type, sections, i + 1, out)
             ELSE CategorizeFrom(
                     save_categorization(st, account_name, file_type,
                                         ans.category, ans.confidence, NULL),
                     csv_data, file_type, sections, i + 1,
                     Append(out, row @@ [ai_category |-> ans.category,
                                         confidence_score |-> ans.confidence]))

\* sum(1 for row in categorized_data if row['ai_category'] == category)
CountOf(categorized_data, category) ==
    Cardinality({i \in DOMAIN categorized_data :
                    categorized_data[i].ai_category = category})

RECURSIVE SumConfidence(_, _)
SumConfidence(categorized_data, i) ==
    IF i > Len(categorized_data) THEN 0
    ELSE categorized_data[i].confidence_score
         + SumConfidence(categorized_data, i + 1)

\* the summary; confidence_avg is kept as the fraction num/den that np.mean
\* divides (0/0 is the NaN of an empty categorized_data)
Summary(categorized_data) ==
    [total_records |-> Len(categorized_data),
     income_count |-> CountOf(categorized_data, income),
     expense_count |-> CountOf(categorized_data, expense),
     net_income_count |-> CountOf(categorized_data, net_income),
     uncategorized_count |-> CountOf(categorized_data, uncategorized),
     confidence_avg |-> [num |-> SumConfidence(categorized_data, 1),
                         den |-> Len(categorized_data)]]

\* categorize_csv_data(csv_data, file_type) on store st: the store after it
\* and its result
categorize_csv_data(st, csv_data, file_type) ==
    LET done == CategorizeFrom(st, csv_data, file_type,
                               detect_sections(csv_data), 1, <<>>)
    IN  [store |-> done.store,
         categorized_data |-> done.categorized_data,
         summary |-> Summary(done.categorized_data)]

\* ------------------------------------------------------------- requests

\* a JSON object: the field k with the value in opt, or no field when opt = {}
Field(k, opt) ==
    IF opt = {} THEN [x \in {} |-> NULL] ELSE k :> (CHOOSE v \in opt : TRUE)

\* data.get(k), for a field of text: NULL when the field is absent
GetText(data, k) == IF k \in DOMAIN data THEN data[k] ELSE NULL

\* Python truth of data.get('account_name')
HasName(data) == "account_name" \in DOMAIN data /\ data.account_name # <<>>

\* the validation of Learn with user_category only required to be present
LearnValid_CategoryUnchecked(data) ==
    /\ HasName(data)
    /\ Truthy(GetText(data, "file_type"))
    /\ "user_category" \in DOMAIN data

\* all([account_name, file_type, user_category])
LearnValid(data) ==
    /\ HasName(data)
    /\ Truthy(GetText(data, "file_type"))
    /\ Truthy(GetText(data, "user_category"))

\* data.get('csv_data', [])
CsvData(data) == IF "csv_data" \in DOMAIN data THEN data.csv_data ELSE <<>>

\* data.get('file_type', 'general')
FileType(data) == IF "file_type" \in DOMAIN data THEN data.file_type ELSE "general"

\* jsonify({'error': ...}), status: the body has the error field only
ErrorResponse(status, error) == [status |-> status, error |-> error]

\* the 500 response that also carries the rows resolved before the failure
RaisedResponse_Partial(error, categorized_data) ==
    [status |-> 500, error |-> error, categorized_data |-> categorized_data,
     summary |-> Summary(categorized_data)]

\* lines 269-271: the response to an exception raised inside the handler;
\* categorized_data is what the loop had appended when it was left
RaisedResponse(error, categorized_data) == ErrorResponse(500, error)

\* jsonify({'success': True, ...}), 200
OkResponse(categorized_data, summary) ==
    [status |-> 200, error |-> NULL, categorized_data |-> categorized_data,
     summary |-> summary]

\* ------------------------------------------------------- bounds and inputs

\* requests handled in one behaviour of Spec
MaxRequests == 3

\* rows in the csv_data of SpecBatch
MaxRows == 4

RECURSIVE SeqsUpTo(_, _)
SeqsUpTo(S, n) ==
    IF n = 0 THEN {<<>>}
    ELSE LET shorter == SeqsUpTo(S, n - 1)
         IN  shorter \cup {Append(s, x) : s \in shorter, x \in S}

\* the csv_data of the request sequences: a plain name, a name under a
\* section header, blank rows only, a name beside an unknown one
SeqBatches ==
    {<<Row(NmRent)>>,
     <<Row(NmTotalIncome), Row(NmRent)>>,
     <<Row(NmBlank), RowNoName>>,
     <<Row(NmRent), Row(NmMisc)>>}

\* the bodies of the Categorize requests of Spec
CategorizeInputs ==
    {Field("csv_data", c) @@ Field("file_type", f) :
        c \in {{}, {<<>>}} \cup {{b} : b \in SeqBatches},
        f \in {{}, {"X"}}}

\* the bodies of the Learn requests of Spec
LearnInputs ==
    {Field("account_name", a) @@ Field("file_type", f) @@ Field("user_category", c) :
        a \in {{}, {NmEmpty}, {NmRent}},
        f \in {{}, {""}, {"X"}},
        c \in {{}, {""}, {expense}, {"bonus"}}}

\* the rows of the batches of SpecBatch
BatchRows ==
    {Row(NmTotalIncome), Row(NmTotalExpense), Row(NmRent), Row(NmTotal),
     Row(NmBlank), RowNoName}

\* the bodies of the Categorize requests of SpecBatch
BatchInputs ==
    {Field("csv_data", {b}) @@ Field("file_type", {"X"}) :
        b \in SeqsUpTo(BatchRows, MaxRows)}

\* the bodies of the requests that may precede the batch in SpecBatch
SeedLearnInputs ==
    {Field("account_name", {a}) @@ Field("file_type", {"X"}) @@ Field("user_category", {c}) :
        a \in {NmRent, NmTotalExpense}, c \in {net_income}}

SeedCategorizeInputs ==
    {Field("csv_data", {b}) @@ Field("file_type", {"X"}) :
        b \in {<<Row(NmTotalExpense), Row(NmRent)>>}}

\* rows in the csv_data of SpecSection
MaxSectionRows == 3

\* the rows of the batches of SpecSection: headers, names that match no header
\* rule, names that hold a total/summary keyword, and the literal "Total"
SectionRows ==
    {Row(NmTotalOperatingExpense), Row(NmMaintenance), Row(NmNetIncome),
     Row(NmProfit), Row(NmNetLoss), Row(NmLoss), Row(NmLossExpense),
     Row(NmTotal)}

\* the bodies of the Categorize requests of SpecSection
SectionInputs ==
    {Field("csv_data", {b}) @@ Field("file_type", {"X"}) :
        b \in SeqsUpTo(SectionRows, MaxSectionRows)}

\* rows in the csv_data of SpecFail
MaxFailRows == 3

\* the messages of the sqlite3 exceptions of the model
StorageErrors == {"database is locked", "unable to open database file"}

\* the learning-store calls of categorize_csv_data that can raise
StoreCalls == {"get_learning_data", "save_categorization"}

\* the bodies of the Categorize requests of SpecFail
FailInputs ==
    {Field("csv_data", {b}) @@ Field("file_type", {"X"}) :
        b \in SeqsUpTo({Row(NmRent), Row(NmMisc), Row(NmTotalIncome), Row(NmBlank)},
                       MaxFailRows)}

\* the (account_name, file_type) pairs a request of the model can save
Keys == (AccountNames \ {NmEmpty}) \X {"X", "general"}

\* ---------------------------------------------------------------- state

VARIABLES store, req, resp, nreq, saves, corrected, sectioned, since, conn, lock

vars == <<store, req, resp, nreq, saves, corrected, sectioned, since, conn, lock>>

\* store: the ai_categorizations table and its AUTOINCREMENT sequence
\* req, resp: the last request handled and its response
\* nreq: the number of requests handled (bounds the behaviours)
\* history of the requests, per key (account_name, file_type):
\*   saves: the save_categorization calls made so far
\*   corrected: the user_category of the last Learn, or NULL
\*   since: the categorize calls with the key's file_type since that Learn
\*   sectioned: whether one of those calls had the name in its section mapping
\* conn: the requests in flight in SpecConc, each with its own connection
\* lock: the connection that holds the write lock of the database file, 0 if none

Init ==
    /\ store = EmptyStore
    /\ req = [kind |-> "none"]
    /\ resp = [status |-> 0]
    /\ nreq = 0
    /\ saves = [k \in Keys |-> 0]
    /\ corrected = [k \in Keys |-> NULL]
    /\ sectioned = [k \in Keys |-> FALSE]
    /\ since = [k \in Keys |-> 0]
    /\ conn = <<>>
    /\ lock = 0

\* the rows of csv_data whose account_name is a
Occurrences(csv_data, a) ==
    Cardinality({i \in DOMAIN csv_data : RowName(csv_data[i]) = a})

\* POST /api/categorize
categorize_csv(data) ==
    LET csv_data == CsvData(data)
        file_type == FileType(data)
        result == categorize_csv_data(store, csv_data, file_type)
        mapped == DOMAIN detect_sections(csv_data)
    IN  /\ req' = [kind |-> "categorize", data |-> data]
        /\ IF csv_data = <<>>
           THEN /\ resp' = ErrorResponse(400, "No CSV data provided")
                /\ UNCHANGED <<store, saves, sectioned, since>>
           ELSE /\ resp' = OkResponse(result.categorized_data, result.summary)
                /\ store' = result.store
                /\ saves' = [k \in Keys |->
                      IF k[2] = file_type /\ Strip(k[1]) # <<>>
                      THEN saves[k] + Occurrences(csv_data, k[1])
                      ELSE saves[k]]
                /\ sectioned' = [k \in Keys |->
                      sectioned[k] \/ (k[2] = file_type /\ k[1] \in mapped)]
                /\ since' = [k \in Keys |->
                      IF k[2] = file_type THEN since[k] + 1 ELSE since[k]]
        /\ UNCHANGED corrected

\* POST /api/learn
learn_from_correction(data) ==
    LET key == <<data.account_name, data.file_type>>
    IN  /\ req' = [kind |-> "learn", data |-> data]
        /\ IF ~LearnValid(data)
           THEN /\ resp' = ErrorResponse(400, "Missing required fields")
                /\ UNCHANGED <<store, saves, corrected, sectioned, since>>
           ELSE /\ store' = save_categorization(store, data.account_name,
                                data.file_type, uncategorized, ConfFloor,
                                data.user_category)
                /\ resp' = OkResponse(<<>>, Summary(<<>>))
                /\ saves' = [saves EXCEPT ![key] = @ + 1]
                /\ corrected' = [corrected EXCEPT ![key] = data.user_category]
                /\ sectioned' = [sectioned EXCEPT ![key] = FALSE]
                /\ since' = [since EXCEPT ![key] = 0]

\* POST /api/categorize when the learning-store call `call` of row `at` raises
\* an exception with the message `error`: the rows before `at` have been
\* resolved and their saves committed, the exception leaves the loop of
\* categorize_csv_data and is caught at line 269
categorize_csv_raising(data, at, call, error) ==
    LET csv_data == CsvData(data)
        file_type == FileType(data)
        sections == detect_sections(csv_data)
        before == Prefix(csv_data, at - 1)
        done == CategorizeFrom(store, before, file_type, sections, 1, <<>>)
    IN  /\ at \in DOMAIN csv_data
        /\ ~IsBlank(RowName(csv_data[at]))
        /\ call = "get_learning_data" => RowName(csv_data[at]) \notin DOMAIN sections
        /\ req' = [kind |-> "categorize", data |-> data,
                   raised |-> [at |-> at, call |-> call, error |-> error]]
        /\ resp' = RaisedResponse(error, done.categorized_data)
        /\ store' = done.store
        /\ saves' = [k \in Keys |->
              IF k[2] = file_type /\ Strip(k[1]) # <<>>
              THEN saves[k] + Occurrences(before, k[1])
              ELSE saves[k]]
        /\ sectioned' = [k \in Keys |->
              sectioned[k] \/ (/\ k[2] = file_type
                               /\ k[1] \in DOMAIN sections
                               /\ Occurrences(before, k[1]) > 0)]
        /\ since' = [k \in Keys |->
              IF k[2] = file_type THEN since[k] + 1 ELSE since[k]]
        /\ UNCHANGED corrected

\* Spec: any sequence of at most MaxRequests requests
Categorize ==
    /\ nreq < MaxRequests
    /\ nreq' = nreq + 1
    /\ \E data \in CategorizeInputs : categorize_csv(data)
    /\ UNCHANGED <<conn, lock>>

Learn ==
    /\ nreq < MaxRequests
    /\ nreq' = nreq + 1
    /\ \E data \in LearnInputs : learn_from_correction(data)
    /\ UNCHANGED <<conn, lock>>

Next == Categorize \/ Learn

Spec == Init /\ [][Next]_vars

\* SpecBatch: one batch of up to MaxRows rows, on the empty table or after
\* one request that fills it
SeedLearn ==
    /\ nreq = 0
    /\ nreq' = 1
    /\ \E data \in SeedLearnInputs : learn_from_correction(data)
    /\ UNCHANGED <<conn, lock>>

SeedCategorize ==
    /\ nreq = 0
    /\ nreq' = 1
    /\ \E data \in SeedCategorizeInputs : categorize_csv(data)
    /\ UNCHANGED <<conn, lock>>

BatchCategorize ==
    /\ nreq \in {0, 1}
    /\ nreq' = 2
    /\ \E data \in BatchInputs : categorize_csv(data)
    /\ UNCHANGED <<conn, lock>>

NextBatch == SeedLearn \/ SeedCategorize \/ BatchCategorize

SpecBatch == Init /\ [][NextBatch]_vars

\* SpecSection: one batch of up to MaxSectionRows rows on the empty table
SectionCategorize ==
    /\ nreq = 0
    /\ nreq' = 1
    /\ \E data \in SectionInputs : categorize_csv(data)
    /\ UNCHANGED <<conn, lock>>

NextSection == SectionCategorize

SpecSection == Init /\ [][NextSection]_vars

\* SpecFail: one batch of up to MaxFailRows rows during which a learning-store
\* call raises, on the empty table or after one request that fills it
FailingCategorize ==
    /\ nreq \in {0, 1}
    /\ nreq' = 2
    /\ \E data \in FailInputs, at \in 1..MaxFailRows, call \in StoreCalls,
          error \in StorageErrors :
          categorize_csv_raising(data, at, call, error)
    /\ UNCHANGED <<conn, lock>>

NextFail == SeedLearn \/ SeedCategorize \/ FailingCategorize

SpecFail == Init /\ [][NextFail]_vars

\* -------------------------------------------------- concurrent requests

\* requests in flight at once in SpecConc
NumProcs == 2

Procs == 1..NumProcs

\* the bodies of the Learn requests of SpecConc
ConcLearnInputs ==
    {Field("account_name", {a}) @@ Field("file_type", {"X"}) @@ Field("user_category", c) :
        a \in {NmRent, NmMisc}, c \in {{}, {expense}}}

\* the bodies of the Categorize requests of SpecConc: batches of one row
ConcCategorizeInputs ==
    {Field("csv_data", {<<Row(a)>>}) @@ Field("file_type", {"X"}) :
        a \in {NmRent, NmMisc}}

\* the sequential history variables, which SpecConc leaves alone
seqVars == <<req, resp, nreq, corrected, sectioned, since>>

InitConc ==
    /\ store = EmptyStore
    /\ req = [kind |-> "none"]
    /\ resp = [status |-> 0]
    /\ nreq = 0
    /\ saves = [k \in Keys |-> 0]
    /\ corrected = [k \in Keys |-> NULL]
    /\ sectioned = [k \in Keys |-> FALSE]
    /\ since = [k \in Keys |-> 0]
    /\ conn = [p \in Procs |-> [pc |-> "idle"]]
    /\ lock = 0

\* a request in flight: pc is its position, save the arguments of its
\* save_categorization call (NULL until they are known), open whether its
\* connection is open, early and usage_count what it has read of usage_count,
\* overlapped whether another request held a connection when it executed
InFlight(kind, data, pc, save) ==
    [pc |-> pc, kind |-> kind, data |-> data, save |-> save, open |-> FALSE,
     early |-> 0, usage_count |-> 0, overlapped |-> FALSE]

\* the arguments of one save_categorization call
SaveArgs(account_name, file_type, predicted_category, confidence_score, user_corrected_category) ==
    [account_name |-> account_name, file_type |-> file_type,
     predicted_category |-> predicted_category,
     confidence_score |-> confidence_score,
     user_corrected_category |-> user_corrected_category]

\* the key a request in flight saves
KeyOf(p) == <<conn[p].save.account_name, conn[p].save.file_type>>

\* another request is between its connect and its close
Overlaps(p) ==
    \E q \in Procs \ {p} : conn[q].pc \in {"execute", "commit", "close"}

\* learn_from_correction, lines 277-288: the body is read and validated, and
\* save_categorization is called with the correction
Receive(p) ==
    /\ conn[p].pc = "idle"
    /\ \E data \in ConcLearnInputs :
          conn' = [conn EXCEPT ![p] =
                     IF LearnValid(data)
                     THEN InFlight("learn", data, "connect",
                             SaveArgs(data.account_name, data.file_type,
                                      uncategorized, ConfFloor,
                                      data.user_category))
                     ELSE InFlight("learn", data, "rejected", NULL)]
    /\ UNCHANGED <<store, lock, saves, seqVars>>

\* categorize_csv, lines 249-259, and detect_sections: the body is read and
\* the loop of categorize_csv_data reaches its row
ReceiveCategorize(p) ==
    /\ conn[p].pc = "idle"
    /\ \E data \in ConcCategorizeInputs :
          conn' = [conn EXCEPT ![p] = InFlight("categorize", data, "resolve", NULL)]
    /\ UNCHANGED <<store, lock, saves, seqVars>>

\* lines 204-217 for the row of the batch: the section mapping or
\* fuzzy_categorize, whose get_learning_data opens a connection, reads the
\* committed table and closes it; save_categorization is called with the answer
ResolveRow(p) ==
    /\ conn[p].pc = "resolve"
    /\ LET csv_data == CsvData(conn[p].data)
           file_type == FileType(conn[p].data)
           account_name == RowName(csv_data[1])
           ans == Resolve(store.table, detect_sections(csv_data), account_name,
                          file_type)
       IN  conn' = [conn EXCEPT ![p] =
                      InFlight("categorize", conn[p].data, "connect",
                          SaveArgs(account_name, file_type, ans.category,
                                   ans.confidence, NULL))]
    /\ UNCHANGED <<store, lock, saves, seqVars>>

\* save_categorization, lines 112-113: the request opens its own connection;
\* early is what a SELECT of usage_count issued now would return
Connect(p) ==
    /\ conn[p].pc = "connect"
    /\ conn' = [conn EXCEPT ![p] =
                  [conn[p] EXCEPT !.pc = "execute", !.open = TRUE,
                      !.early = StoredUsage(store.table, KeyOf(p)[1], KeyOf(p)[2])]]
    /\ UNCHANGED <<store, lock, saves, seqVars>>

\* a write statement starts only when no other connection holds the write lock
WriteLockFree(holder) == holder = 0

\* the usage_count read by a SELECT of its own before the INSERT OR REPLACE,
\* outside the write lock
UsageRead_Early(p) == conn[p].early

\* the usage_count the statement reads and increments: the subquery runs
\* inside the INSERT OR REPLACE, under the write lock
UsageRead(p) == StoredUsage(store.table, KeyOf(p)[1], KeyOf(p)[2])

\* lines 115-124: cursor.execute takes the write lock and runs the statement
\* in the connection's transaction
Execute(p) ==
    /\ conn[p].pc = "execute"
    /\ WriteLockFree(lock)
    /\ lock' = p
    /\ conn' = [conn EXCEPT ![p] =
                  [conn[p] EXCEPT !.pc = "commit",
                      !.usage_count = UsageRead(p) + 1,
                      !.overlapped = Overlaps(p)]]
    /\ UNCHANGED <<store, saves, seqVars>>

\* lines 115-124 while another connection holds the write lock: after the
\* busy timeout execute raises "database is locked", conn.close() of line 127
\* is not reached and the handler answers 500 (lines 269-271, 294-296); the
\* connection object is closed only if and when the interpreter reclaims it,
\* so it is open or closed when the request finishes
Busy(p) ==
    /\ conn[p].pc = "execute"
    /\ ~WriteLockFree(lock)
    /\ \E reclaimed \in BOOLEAN :
          conn' = [conn EXCEPT ![p] =
                     [conn[p] EXCEPT !.pc = "failed", !.open = ~reclaimed]]
    /\ UNCHANGED <<store, lock, saves, seqVars>>

\* line 126: conn.commit() publishes the row and releases the write lock
Commit(p) ==
    /\ conn[p].pc = "commit"
    /\ store' = WriteRow(store, conn[p].save.account_name, conn[p].save.file_type,
                         conn[p].save.predicted_category,
                         conn[p].save.confidence_score,
                         conn[p].save.user_corrected_category,
                         conn[p].usage_count)
    /\ lock' = IF lock = p THEN 0 ELSE lock
    /\ saves' = [saves EXCEPT ![KeyOf(p)] = @ + 1]
    /\ conn' = [conn EXCEPT ![p] = [conn[p] EXCEPT !.pc = "close"]]
    /\ UNCHANGED seqVars

\* line 127 and the 200 response: conn.close(), then the handler returns
Close(p) ==
    /\ conn[p].pc = "close"
    /\ conn' = [conn EXCEPT ![p] =
                  [conn[p] EXCEPT !.pc = "done", !.open = FALSE]]
    /\ UNCHANGED <<store, lock, saves, seqVars>>

NextConc ==
    \E p \in Procs :
        \/ Receive(p) \/ ReceiveCategorize(p) \/ ResolveRow(p)
        \/ Connect(p) \/ Execute(p) \/ Busy(p) \/ Commit(p) \/ Close(p)

SpecConc == InitConc /\ [][NextConc]_vars

\* ------------------------------------------------------------- properties

\* the last request was a Categorize that returned categorized_data
Answered == req.kind = "categorize" /\ resp.status = 200

\* the rows of the last response whose account_name is a
RowsNamed(a) ==
    {i \in DOMAIN resp.categorized_data : resp.categorized_data[i].account_name = a}

\* the key k is one the last Categorize could answer outside a section
Unsectioned(k) ==
    /\ k[2] = FileType(req.data)
    /\ k[1] \notin DOMAIN detect_sections(CsvData(req.data))

\* C1: the first categorize call with file_type ft after Learn(a, ft, c), on a
\* batch whose section mapping leaves a out, answers every row named a with
\* category c and confidence 0.95
C1_CorrectionDominates ==
    Answered =>
        \A k \in Keys :
            (corrected[k] # NULL /\ since[k] = 1 /\ Unsectioned(k))
            => \A i \in RowsNamed(k[1]) :
                  /\ resp.categorized_data[i].ai_category = corrected[k]
                  /\ resp.categorized_data[i].confidence_score = ConfCorrected

\* C1 happens: "Rent" was corrected to expense, the keyword scores say
\* income, and the first batch after the correction answers expense at 0.95
C1_Witness ==
    LET k == <<NmRent, "X">>
    IN  /\ Answered
        /\ corrected[k] = expense
        /\ since[k] = 1
        /\ Unsectioned(k)
        /\ ScoreOf(NmRent).category = income
        /\ \E i \in RowsNamed(NmRent) :
              /\ resp.categorized_data[i].ai_category = expense
              /\ resp.categorized_data[i].confidence_score = ConfCorrected

\* C2 as claimed: once Learn(a, ft, c) is recorded, every later categorize call
\* with file_type ft answers c for every row named a, whatever the batches hold
C2_AsClaimed ==
    Answered =>
        \A k \in Keys :
            (corrected[k] # NULL /\ k[2] = FileType(req.data))
            => \A i \in RowsNamed(k[1]) :
                  resp.categorized_data[i].ai_category = corrected[k]

\* C2 amended: once Learn(a, ft, c) is recorded, every later categorize call
\* with file_type ft answers c for every row named a, as long as no categorize
\* batch with file_type ft since the Learn had a in its section mapping
C2_CorrectionPersists ==
    Answered =>
        \A k \in Keys :
            (corrected[k] # NULL /\ k[2] = FileType(req.data) /\ ~sectioned[k])
            => \A i \in RowsNamed(k[1]) :
                  resp.categorized_data[i].ai_category = corrected[k]

\* C2 happens: the second batch after the correction of "Rent" still answers
\* expense, from a record that no longer carries the correction
C2_Witness ==
    LET k == <<NmRent, "X">>
    IN  /\ Answered
        /\ corrected[k] = expense
        /\ since[k] = 2
        /\ ~sectioned[k]
        /\ \A r \in RowsOf(store.table, NmRent, "X") :
              r.user_corrected_category = NULL /\ r.usage_count = 3
        /\ \E i \in RowsNamed(NmRent) :
              resp.categorized_data[i].ai_category = expense

\* C3: a categorize call that repeats the call before it (same rows, same
\* file_type) returns the same ai_category for every row
C3_Idempotent ==
    [][(Answered /\ req' = req)
       => /\ resp'.status = 200
          /\ Len(resp'.categorized_data) = Len(resp.categorized_data)
          /\ \A i \in DOMAIN resp.categorized_data :
                resp'.categorized_data[i].ai_category
                    = resp.categorized_data[i].ai_category]_vars

\* C3 happens: after a correction of "Rent", the batch ["Rent", "Misc"] was
\* categorized twice in a row (only that batch saves "Misc")
C3_Witness ==
    /\ Answered
    /\ nreq = 3
    /\ corrected[<<NmRent, "X">>] = expense
    /\ \E r \in RowsOf(store.table, NmRent, "X") : r.usage_count = 3
    /\ \E r \in RowsOf(store.table, NmMisc, "X") : r.usage_count = 2
    /\ resp.categorized_data[1].ai_category = expense
    /\ resp.categorized_data[2].ai_category = uncategorized

\* the Category enumeration of the answers
Category == {income, expense, net_income, uncategorized}

\* C4: every returned row has ai_category in the Category enumeration and a
\* confidence_score in [0, 1]
C4_OutputDomain ==
    Answered =>
        \A i \in DOMAIN resp.categorized_data :
            /\ resp.categorized_data[i].ai_category \in Category
            /\ resp.categorized_data[i].confidence_score \in 0..100

\* C5: a row whose account_name is a key of the batch's section mapping gets
\* the section's category at 0.9 whatever record the table holds; the record
\* of (account_name, file_type) decides only for names outside the mapping,
\* and the keyword scores only for names that have no record either
C5_ResolutionOrder ==
    [][(req'.kind = "categorize" /\ resp'.status = 200)
       => LET file_type == FileType(req'.data)
              sections == detect_sections(CsvData(req'.data))
          IN  \A i \in DOMAIN resp'.categorized_data :
                LET row == resp'.categorized_data[i]
                    a == row.account_name
                    records == RowsOf(store.table, a, file_type)
                IN  IF a \in DOMAIN sections
                    THEN /\ row.ai_category = sections[a]
                         /\ row.confidence_score = ConfSection
                    ELSE IF records # {}
                    THEN \E r \in records :
                            IF r.user_corrected_category \notin {NULL, ""}
                            THEN /\ row.ai_category = r.user_corrected_category
                                 /\ row.confidence_score = ConfCorrected
                            ELSE /\ row.ai_category = r.predicted_category
                                 /\ row.confidence_score = r.confidence_score
                    ELSE /\ row.ai_category = ScoreOf(a).category
                         /\ row.confidence_score = ScoreOf(a).confidence]_vars

\* C5 happens: "Rent" carries the correction net_income, the batch puts it
\* under "Total Income", and the answer is the section's income at 0.9
C5_Witness ==
    /\ Answered
    /\ corrected[<<NmRent, "X">>] = net_income
    /\ since[<<NmRent, "X">>] = 1
    /\ NmRent \in DOMAIN detect_sections(CsvData(req.data))
    /\ \E i \in RowsNamed(NmRent) :
          /\ resp.categorized_data[i].ai_category = income
          /\ resp.categorized_data[i].confidence_score = ConfSection

\* the table holds at most one row per key, and the row of a key counts the
\* saves made for it
C6_OneRowPerKey ==
    /\ \A r \in store.table : <<r.account_name, r.file_type>> \in Keys
    /\ \A k \in Keys :
          LET rows == RowsOf(store.table, k[1], k[2])
          IN  /\ Cardinality(rows) <= 1
              /\ saves[k] = 0 => rows = {}
              /\ saves[k] > 0 => \E r \in rows : r.usage_count = saves[k]

\* C6: at most one record per (account_name, file_type); its usage_count is
\* the number of saves made for the pair, at least 1; no request removes a
\* record or lowers its usage_count
C6_UpsertCounter ==
    /\ []C6_OneRowPerKey
    /\ [][\A r \in store.table :
            \E q \in RowsOf(store'.table, r.account_name, r.file_type) :
                q.usage_count >= r.usage_count /\ q.usage_count >= 1]_vars

\* C6 happens: the record of ("Rent", "X") was saved three times, by a
\* correction and by two batches
C6_Witness ==
    /\ saves[<<NmRent, "X">>] = 3
    /\ corrected[<<NmRent, "X">>] # NULL
    /\ since[<<NmRent, "X">>] = 2
    /\ \E r \in RowsOf(store.table, NmRent, "X") : r.usage_count = 3

\* row has an account_name that is not empty after trimming
NonBlankRow(row) ==
    "account_name" \in DOMAIN row /\ Strip(row.account_name) # <<>>

\* C8: categorized_data holds, in input order, one row for each input row
\* whose account_name is non-empty after trimming and none for the others;
\* total_records counts them (0 when every row is blank); the table is
\* written once per emitted row and never for a skipped one
C8_BlankRowsSkipped ==
    [][(req'.kind = "categorize" /\ resp'.status = 200)
       => LET kept == SelectSeq(CsvData(req'.data), NonBlankRow)
              out == resp'.categorized_data
          IN  /\ Len(out) = Len(kept)
              /\ \A i \in DOMAIN out :
                    /\ DOMAIN out[i]
                         = DOMAIN kept[i] \cup {"ai_category", "confidence_score"}
                    /\ \A f \in DOMAIN kept[i] : out[i][f] = kept[i][f]
              /\ resp'.summary.total_records = Len(kept)
              /\ store'.seq = store.seq + Len(kept)
              /\ \A r \in store'.table \ store.table :
                    Strip(r.account_name) # <<>>]_vars

\* C8 happens: of a whitespace-only row, "Rent" and a row without the field,
\* only "Rent" is returned and saved
C8_Witness ==
    /\ Answered
    /\ CsvData(req.data) = <<Row(NmBlank), Row(NmRent), RowNoName>>
    /\ Len(resp.categorized_data) = 1
    /\ resp.categorized_data[1].account_name = NmRent
    /\ resp.summary.total_records = 1
    /\ store.seq = 1

\* a Learn body with a required field absent or empty
LearnIncomplete(data) ==
    \/ "account_name" \notin DOMAIN data
    \/ "file_type" \notin DOMAIN data
    \/ "user_category" \notin DOMAIN data
    \/ data.account_name = <<>>
    \/ data.file_type = ""
    \/ data.user_category = ""

\* C9: a Learn request with a required field absent or empty, and a
\* Categorize request without rows, return status 400 and leave the table
\* as it was
C9_InvalidRejected ==
    [][(\/ req'.kind = "learn" /\ LearnIncomplete(req'.data)
        \/ req'.kind = "categorize" /\ CsvData(req'.data) = <<>>)
       => resp'.status = 400 /\ store' = store]_vars

\* C9 happens: a Learn without user_category was refused while the table
\* holds a record
C9_Witness ==
    /\ req.kind = "learn"
    /\ "user_category" \notin DOMAIN req.data
    /\ "account_name" \in DOMAIN req.data /\ req.data.account_name = NmRent
    /\ "file_type" \in DOMAIN req.data /\ req.data.file_type = "X"
    /\ resp.status = 400
    /\ \E r \in RowsOf(store.table, NmRent, "X") : r.usage_count = 2

\* the section a row sets as a header, NULL when no header rule matches it
HeaderOf(row) == SectionAfter(NULL, Lower(Strip(RowName(row))))

\* the current section once rows 1..i are scanned: that of the last header
CurrentAt(csv_data, i) ==
    LET headers == {j \in 1..i : HeaderOf(csv_data[j]) # NULL}
    IN  IF headers = {} THEN NULL ELSE HeaderOf(csv_data[SetMax(headers)])

\* the rows named a that the scan tags with a section
TaggedAt(csv_data, a) ==
    {i \in DOMAIN csv_data :
        /\ RowName(csv_data[i]) = a
        /\ CurrentAt(csv_data, i) # NULL
        /\ Lower(Strip(a)) \notin {<<>>, KwTotal, KwSubtotal}}

\* C10: the section mapping has one entry for each account name tagged
\* somewhere in the batch, the current section at the last row that tags it,
\* and categorize answers every row of that name with it at 0.9
C10_LastSeenWins ==
    Answered =>
        LET csv_data == CsvData(req.data)
            sections == detect_sections(csv_data)
            names == {RowName(csv_data[i]) : i \in DOMAIN csv_data}
        IN  /\ DOMAIN sections = {a \in names : TaggedAt(csv_data, a) # {}}
            /\ \A a \in DOMAIN sections :
                  LET last == CurrentAt(csv_data, SetMax(TaggedAt(csv_data, a)))
                  IN  /\ sections[a] = last
                      /\ \A i \in RowsNamed(a) :
                            /\ resp.categorized_data[i].ai_category = last
                            /\ resp.categorized_data[i].confidence_score
                                   = ConfSection

\* C10 happens: in ["Total Income", "Rent", "Total Expense", "Rent"] both
\* "Rent" rows are answered expense, the section of the last one
C10_Witness ==
    /\ Answered
    /\ CsvData(req.data)
         = <<Row(NmTotalIncome), Row(NmRent), Row(NmTotalExpense), Row(NmRent)>>
    /\ detect_sections(CsvData(req.data))[NmRent] = expense
    /\ resp.categorized_data[2].ai_category = expense
    /\ resp.categorized_data[4].ai_category = expense

\* the requests in flight that have committed a save of key k
Committed(k) ==
    {p \in Procs : conn[p].pc \in {"close", "done"} /\ KeyOf(p) = k}

\* C7: however the saves of concurrent requests interleave, each key has at
\* most one record and its usage_count is the number of saves committed for
\* the key, so once every request has finished no save is lost
C7_NoLostUpdate ==
    \A k \in Keys :
        LET rows == RowsOf(store.table, k[1], k[2])
        IN  /\ Cardinality(rows) <= 1
            /\ Committed(k) = {} => rows = {}
            /\ Committed(k) # {}
                 => \E r \in rows : r.usage_count = Cardinality(Committed(k))

\* C7 happens: two requests saved ("Rent", "X") while both were in flight,
\* both have finished, and the record counts 2
C7_Witness ==
    /\ \A p \in Procs : conn[p].pc = "done" /\ KeyOf(p) = <<NmRent, "X">>
    /\ \E p \in Procs : conn[p].overlapped
    /\ \E r \in RowsOf(store.table, NmRent, "X") : r.usage_count = NumProcs

\* C11: the current section is that of the last header scanned; a row scanned
\* before any header adds nothing to the mapping, a row scanned under a section
\* is mapped to it unless its trimmed lowercased name is "", "total" or
\* "subtotal", whether or not it matches a header rule, and then nothing else
\* of the mapping changes
C11_StickySection ==
    Answered =>
        LET csv_data == CsvData(req.data)
        IN  \A i \in DOMAIN csv_data :
              LET a == RowName(csv_data[i])
                  before == detect_sections(Prefix(csv_data, i - 1))
                  after == detect_sections(Prefix(csv_data, i))
                  current == CurrentAt(csv_data, i)
              IN  IF current = NULL
                  THEN DOMAIN after = {}
                  ELSE IF Lower(Strip(a)) \in {<<>>, KwTotal, KwSubtotal}
                  THEN after = before
                  ELSE /\ DOMAIN after = DOMAIN before \cup {a}
                       /\ after[a] = current
                       /\ \A k \in DOMAIN before \ {a} : after[k] = before[k]

\* C11 happens: ["Total Operating Expense", "Maintenance"] is answered expense
\* at 0.9 twice, where the keyword scores give "Maintenance" 0.85
C11_Witness ==
    /\ Answered
    /\ CsvData(req.data) = <<Row(NmTotalOperatingExpense), Row(NmMaintenance)>>
    /\ HeaderOf(Row(NmMaintenance)) = NULL
    /\ ScoreOf(NmMaintenance).confidence = ConfCap
    /\ \A i \in 1..2 :
          /\ resp.categorized_data[i].ai_category = expense
          /\ resp.categorized_data[i].confidence_score = ConfSection

\* the header rules as the design states them, on the lowered, trimmed name
IncomeRule(name) ==
    /\ Contains(name, KwIncome) \/ Contains(name, KwRevenue)
    /\ Contains(name, KwTotal) \/ Contains(name, KwGross)
         \/ Contains(name, KwOperating)

ExpenseRule(name) ==
    /\ Contains(name, KwExpense) \/ Contains(name, KwCost)
    /\ Contains(name, KwTotal) \/ Contains(name, KwOperating)

NetIncomeRule(name) ==
    /\ Contains(name, KwNetIncome) \/ Contains(name, KwProfit)
    /\ ~IncomeRule(name)
    /\ ~ExpenseRule(name)

\* C12: a row whose name holds "net income" or "profit" and satisfies neither
\* the income rule nor the expense rule sets the current section to
\* net_income: the scan maps that row to net_income
C12_NetIncomeHeader ==
    Answered =>
        LET csv_data == CsvData(req.data)
        IN  \A i \in DOMAIN csv_data :
              LET a == RowName(csv_data[i])
                  after == detect_sections(Prefix(csv_data, i))
              IN  NetIncomeRule(Lower(Strip(a)))
                  => a \in DOMAIN after /\ after[a] = net_income

\* steps 3 to 6 of the scorer: the fuzzy scores against the keyword lists
FuzzyOnly(account_lower) ==
    LET max_income_score == MaxScore(account_lower, income_keywords)
        max_expense_score == MaxScore(account_lower, expense_keywords)
    IN  IF max_income_score > max_expense_score
           /\ max_income_score > FuzzyThreshold
        THEN [category |-> income,
              confidence |-> Min(max_income_score, ConfCap)]
        ELSE IF max_expense_score > FuzzyThreshold
        THEN [category |-> expense,
              confidence |-> Min(max_expense_score, ConfCap)]
        ELSE [category |-> uncategorized, confidence |-> ConfFloor]

\* the answer the total/summary rule prescribes for a lowered name
TotalRule(account_lower) ==
    IF ~ContainsAny(account_lower, total_keywords) THEN FuzzyOnly(account_lower)
    ELSE IF Contains(account_lower, KwIncome)
    THEN [category |-> income, confidence |-> ConfTotal]
    ELSE IF Contains(account_lower, KwExpense)
    THEN [category |-> expense, confidence |-> ConfTotal]
    ELSE IF Contains(account_lower, KwNet)
    THEN [category |-> net_income, confidence |-> ConfTotal]
    ELSE FuzzyOnly(account_lower)

\* TotalRule of every account name of the model, computed once
TotalRuleTable ==
    {[name |-> n, answer |-> TotalRule(Lower(Strip(n)))] : n \in AccountNames}

\* C13: a name outside the section mapping and without a record, whose
\* lowered form holds a total/summary keyword, is answered income if it holds
\* "income", else expense if it holds "expense", else net_income if it holds
\* "net", at 0.9; with none of the three it gets the fuzzy answer
C13_TotalRule ==
    [][(req'.kind = "categorize" /\ resp'.status = 200)
       => LET file_type == FileType(req'.data)
              sections == detect_sections(CsvData(req'.data))
          IN  \A i \in DOMAIN resp'.categorized_data :
                LET row == resp'.categorized_data[i]
                    a == row.account_name
                    expected == (CHOOSE e \in TotalRuleTable : e.name = a).answer
                IN  (a \notin DOMAIN sections
                     /\ RowsOf(store.table, a, file_type) = {})
                    => /\ row.ai_category = expected.category
                       /\ row.confidence_score = expected.confidence]_vars

\* C13 happens: "Net Income" is answered income, "Net Loss" net_income and
\* "Loss Expense" expense, all at 0.9, and "Loss", which holds a total/summary
\* keyword and none of the three words, gets its fuzzy answer
C13_Witness ==
    /\ Answered
    /\ store.seq = 3
    /\ \E i, j, k \in DOMAIN resp.categorized_data :
          /\ resp.categorized_data[i].account_name = NmNetIncome
          /\ resp.categorized_data[i].ai_category = income
          /\ resp.categorized_data[i].confidence_score = ConfTotal
          /\ resp.categorized_data[j].account_name = NmNetLoss
          /\ resp.categorized_data[j].ai_category = net_income
          /\ resp.categorized_data[j].confidence_score = ConfTotal
          /\ resp.categorized_data[k].account_name = NmLoss
          /\ ContainsAny(Lower(NmLoss), total_keywords)
          /\ resp.categorized_data[k].ai_category = expense
          /\ resp.categorized_data[k].confidence_score < ConfCap

\* C14: a Categorize request during which a learning-store read or save
\* raises is answered 500 with the message of the exception and without
\* categorized_data or summary, whatever rows were resolved before
C14_NoPartialResult ==
    [][(req'.kind = "categorize" /\ "raised" \in DOMAIN req')
       => /\ resp'.status = 500
          /\ resp'.error = req'.raised.error
          /\ "categorized_data" \notin DOMAIN resp'
          /\ "summary" \notin DOMAIN resp']_vars

\* C14 happens: in ["Rent", "Misc"] the save of "Misc" raised after "Rent"
\* was resolved and saved, and the response is the error alone
C14_Witness ==
    /\ req.kind = "categorize"
    /\ "raised" \in DOMAIN req
    /\ CsvData(req.data) = <<Row(NmRent), Row(NmMisc)>>
    /\ req.raised.at = 2
    /\ req.raised.call = "save_categorization"
    /\ RowsOf(store.table, NmRent, "X") # {}
    /\ RowsOf(store.table, NmMisc, "X") = {}
    /\ resp.status = 500
    /\ DOMAIN resp = {"status", "error"}

\* the requests that have finished, with a response sent
Finished(p) == conn[p].pc \in {"rejected", "failed", "done"}

\* C15: a request that has finished, with 200 or with an error, has left no
\* connection of its learning-store calls open
C15_ScopedConnection ==
    \A p \in Procs : Finished(p) => ~conn[p].open

\* C19: once a Learn(a, ft, c) and a categorize of a row named a with
\* file_type ft have both finished, however their steps interleaved and with
\* no other request saving, the next categorize answers c for a
C19_CorrectionSurvives ==
    \A p, q \in Procs :
        (/\ conn[p].pc = "done" /\ conn[p].kind = "learn"
         /\ conn[q].pc = "done" /\ conn[q].kind = "categorize"
         /\ KeyOf(p) = KeyOf(q)
         /\ \A o \in Procs \ {p, q} : conn[o].pc \in {"idle", "rejected"})
        => fuzzy_categorize(store.table, KeyOf(p)[1], KeyOf(p)[2]).category
               = conn[p].data.user_category

\* the file_type a request names, NULL when a Learn request has none
RequestType(r) ==
    IF r.kind = "learn" THEN GetText(r.data, "file_type") ELSE FileType(r.data)

\* C16: a request with file_type ft neither changes nor adds a record of
\* another file_type, and the rows a Categorize returns are those it returns
\* on the table cut down to the records of ft
C16_FileTypesIndependent ==
    [][req'.kind \in {"categorize", "learn"}
       => LET ft == RequestType(req')
              own == [store EXCEPT !.table = {r \in @ : r.file_type = ft}]
          IN  /\ \A r \in store.table : r.file_type # ft => r \in store'.table
              /\ \A r \in store'.table \ store.table : r.file_type = ft
              /\ (req'.kind = "categorize" /\ resp'.status = 200)
                 => resp'.categorized_data
                      = categorize_csv_data(own, CsvData(req'.data), ft).categorized_data]_vars

\* C16 happens: "Rent" carries a correction under file_type "X"; a batch
\* without file_type answers it income from the keywords and leaves the
\* record of "X" as it was
C16_Witness ==
    /\ Answered
    /\ FileType(req.data) = "general"
    /\ \E r \in RowsOf(store.table, NmRent, "X") :
          r.user_corrected_category = expense /\ r.usage_count = 1
    /\ \E r \in RowsOf(store.table, NmRent, "general") : r.usage_count = 1
    /\ \E i \in RowsNamed(NmRent) :
          resp.categorized_data[i].ai_category = income

\* C17: a Categorize saves once per row it returns; afterwards the record of
\* each returned name holds the category and confidence returned for its last
\* row and no correction, its usage_count has grown by the number of rows
\* returned for the name, and no other record has changed
C17_EveryResolutionSaved ==
    [][(req'.kind = "categorize" /\ resp'.status = 200)
       => LET out == resp'.categorized_data
              ft == FileType(req'.data)
              names == {out[i].account_name : i \in DOMAIN out}
          IN  /\ store'.seq = store.seq + Len(out)
              /\ \A a \in names :
                    LET rows == {i \in DOMAIN out : out[i].account_name = a}
                        last == out[SetMax(rows)]
                        records == RowsOf(store'.table, a, ft)
                    IN  /\ Cardinality(records) = 1
                        /\ \A r \in records :
                              /\ r.predicted_category = last.ai_category
                              /\ r.confidence_score = last.confidence_score
                              /\ r.user_corrected_category = NULL
                              /\ r.usage_count
                                   = StoredUsage(store.table, a, ft)
                                     + Cardinality(rows)
              /\ \A r \in store.table :
                    (r.file_type # ft \/ r.account_name \notin names)
                    => r \in store'.table]_vars

\* C17 happens: "Rent", corrected to net_income, is returned twice under
\* "Total Income"; its record now holds income at 0.9, no correction, and
\* counts the Learn and the two rows
C17_Witness ==
    /\ Answered
    /\ corrected[<<NmRent, "X">>] = net_income
    /\ Cardinality(RowsNamed(NmRent)) = 2
    /\ \E r \in RowsOf(store.table, NmRent, "X") :
          /\ r.predicted_category = income
          /\ r.confidence_score = ConfSection
          /\ r.user_corrected_category = NULL
          /\ r.usage_count = 3

\* C18: while a record of (a, ft) carries no correction, a request that is
\* neither a Learn for (a, ft) nor a Categorize with file_type ft whose
\* section mapping holds a leaves its category and confidence as they are,
\* and a Categorize with file_type ft answers every row named a with them
C18_ReplayedVerbatim ==
    [][\A k \in Keys :
         \A r \in RowsOf(store.table, k[1], k[2]) :
            LET accepted == resp'.status = 200
                learned == /\ req'.kind = "learn"
                           /\ accepted
                           /\ req'.data.account_name = k[1]
                           /\ req'.data.file_type = k[2]
                asked == /\ req'.kind = "categorize"
                         /\ accepted
                         /\ FileType(req'.data) = k[2]
                mapped == asked /\ k[1] \in DOMAIN detect_sections(CsvData(req'.data))
            IN  (r.user_corrected_category = NULL /\ ~learned /\ ~mapped)
                => /\ \E q \in RowsOf(store'.table, k[1], k[2]) :
                         /\ q.predicted_category = r.predicted_category
                         /\ q.confidence_score = r.confidence_score
                         /\ q.user_corrected_category = NULL
                   /\ asked
                      => \A i \in DOMAIN resp'.categorized_data :
                            LET row == resp'.categorized_data[i]
                            IN  row.account_name = k[1]
                                => /\ row.ai_category = r.predicted_category
                                   /\ row.confidence_score = r.confidence_score]_vars

\* C18 happens: "Rent" was saved as income at 0.9 under "Total Income"; the
\* batch ["Rent"] answers income at 0.9 again, where the keywords give 0.85
C18_Witness ==
    /\ Answered
    /\ CsvData(req.data) = <<Row(NmRent)>>
    /\ FileType(req.data) = "X"
    /\ corrected[<<NmRent, "X">>] = NULL
    /\ sectioned[<<NmRent, "X">>]
    /\ ScoreOf(NmRent).confidence = ConfCap
    /\ resp.categorized_data[1].ai_category = income
    /\ resp.categorized_data[1].confidence_score = ConfSection

\* C20: the rows of one response that carry the same account_name carry the
\* same ai_category and the same confidence_score
C20_SameNameSameAnswer ==
    Answered =>
        \A i, j \in DOMAIN resp.categorized_data :
            resp.categorized_data[i].account_name
                = resp.categorized_data[j].account_name
            => /\ resp.categorized_data[i].ai_category
                    = resp.categorized_data[j].ai_category
               /\ resp.categorized_data[i].confidence_score
                    = resp.categorized_data[j].confidence_score

\* C20 happens: "Rent", corrected to net_income, occurs twice outside any
\* section; the first row is answered from the correction, the second from
\* the record the first row saved, both net_income at 0.95
C20_Witness ==
    /\ Answered
    /\ corrected[<<NmRent, "X">>] = net_income
    /\ NmRent \notin DOMAIN detect_sections(CsvData(req.data))
    /\ Cardinality(RowsNamed(NmRent)) = 2
    /\ \A i \in RowsNamed(NmRent) :
          /\ resp.categorized_data[i].ai_category = net_income
          /\ resp.categorized_data[i].confidence_score = ConfCorrected
    /\ \E r \in RowsOf(store.table, NmRent, "X") :
          r.user_corrected_category = NULL /\ r.usage_count = 3

====
